---- MODULE Spec2Model ----
(***************************************************************************)
(* The crawl scheduler of src/webcrawler.py (class WebCrawler): the        *)
(* frontier queue, the visited set, the fetch-history ring, the per-netloc *)
(* politeness counters and pauses, the admission filter and the crawl loop.*)
(*                                                                         *)
(* The HTTP transport, the HTML parser and the robots.txt parser are the   *)
(* environment: every fetch ends nondeterministically in a stored page, a  *)
(* timeout or another exception, and a page's links come from a fixed web. *)
(*                                                                         *)
(* Spec is the crawl of InitialUrls.  SpecResume is a shorter crawl that    *)
(* SIGINT may interrupt at any loop position and that is restarted from    *)
(* crawler_state.pkl.  LiveSpec is the shorter crawl under the assumption  *)
(* that time advances and every fetch returns.                             *)
(*                                                                         *)
(* The two pause triggers are 5 in the source; the model runs them at 3    *)
(* (the source defines the timeout trigger as equal to the fetch trigger,  *)
(* and so does the model).  Every other constant has the source's value.   *)
(***************************************************************************)
EXTENDS Integers, Sequences, FiniteSets, TLC

(***************************************************************************)
(* Bounds of the model.                                                    *)
(***************************************************************************)
\* the clock stops starting new loop iterations at this instant (seconds)
MaxNow == 260
\* NETLOC_PAGE_LIMIT is drawn from 1..MaxNetlocPageLimit
MaxNetlocPageLimit == 2
\* HTML_LIMIT is drawn from 1..MaxHtmlLimit
MaxHtmlLimit == 4
\* HTML_LIMIT of the shorter crawls is drawn from 1..MaxShortHtmlLimit
MaxShortHtmlLimit == 2
\* the process is interrupted and restarted at most this often
MaxResumes == 1

(***************************************************************************)
(* Program constants.                                                      *)
(***************************************************************************)
NETLOC_CONSECUTIVE_FETCH_PAUSE_TRIGGER == 3
NETLOC_CONSECUTIVE_FETCH_PAUSE_SEC == 60
NETLOC_CONSECUTIVE_TIMEOUT_PAUSE_TRIGGER == NETLOC_CONSECUTIVE_FETCH_PAUSE_TRIGGER
NETLOC_CONSECUTIVE_TIMEOUT_INITIAL_PAUSE_SEC == 60
\* requests.get(..., timeout=5): a fetch that times out has taken this long
REQUEST_TIMEOUT_SEC == 5
\* time.sleep(1) of the crawl loop
LOOP_SLEEP_SEC == 1
\* the defaults of --html-limit and --netloc-limit
DEFAULT_HTML_LIMIT == 10000
DEFAULT_NETLOC_LIMIT == 100

EXCLUDED_EXTENSIONS ==
    { ".jpg", ".jpeg", ".png", ".svg", ".gif", ".webp", ".bmp", ".tiff",
      ".pdf", ".doc", ".docx", ".ppt", ".pptx", ".xls", ".xlsx",
      ".zip", ".rar", ".tar", ".gz", ".7z", ".iso",
      ".mp3", ".wav", ".ogg", ".mp4", ".avi", ".mov",
      ".exe", ".dll", ".bin", ".bat", ".sh",
      ".css", ".js", ".json", ".xml", ".csv", ".txt" }

(***************************************************************************)
(* Strings: str.startswith, str.endswith, str.find.                        *)
(***************************************************************************)
startswith(s, prefix) ==
    /\ Len(s) >= Len(prefix)
    /\ SubSeq(s, 1, Len(prefix)) = prefix

endswith(s, suffix) ==
    /\ Len(s) >= Len(suffix)
    /\ SubSeq(s, Len(s) - Len(suffix) + 1, Len(s)) = suffix

\* the least index >= from at which sub occurs in s, 0 when there is none
find(s, sub, from) ==
    LET hits == { i \in from..(Len(s) - Len(sub) + 1) :
                     SubSeq(s, i, i + Len(sub) - 1) = sub }
    IN  IF hits = {} THEN 0
        ELSE CHOOSE i \in hits : \A j \in hits : i <= j

(***************************************************************************)
(* urllib.parse.urlsplit on URLs without query and fragment:               *)
(* scheme "://" netloc path.                                               *)
(***************************************************************************)
urlsplit_compute(url) ==
    LET colon == find(url, ":", 1)
        hasNetloc == colon > 0 /\ SubSeq(url, colon + 1, colon + 2) = "//"
        start == colon + 3
        slash == IF hasNetloc THEN find(url, "/", start) ELSE 0
        stop == IF slash = 0 THEN Len(url) + 1 ELSE slash
    IN  IF colon = 0
        THEN [scheme |-> "", netloc |-> "", path |-> url]
        ELSE IF ~hasNetloc
        THEN [scheme |-> SubSeq(url, 1, colon - 1), netloc |-> "",
              path |-> SubSeq(url, colon + 1, Len(url))]
        ELSE [scheme |-> SubSeq(url, 1, colon - 1),
              netloc |-> SubSeq(url, start, stop - 1),
              path |-> SubSeq(url, stop, Len(url))]

(***************************************************************************)
(* The web the crawler runs against.                                       *)
(***************************************************************************)
HostA == "a.ku.ac.th"
HostB == "b.ku.ac.th"

A1 == "https://a.ku.ac.th/1"
A2 == "https://a.ku.ac.th/2"
A3 == "https://a.ku.ac.th/3"
A4 == "https://a.ku.ac.th/4"
A5 == "https://a.ku.ac.th/5"
B1 == "https://b.ku.ac.th/1"
B2 == "https://b.ku.ac.th/2"
B3 == "https://b.ku.ac.th/3"
B4 == "https://b.ku.ac.th/4"
APdf == "https://a.ku.ac.th/doc.pdf"
OffSite == "https://www.example.com/"
MailTo == "mailto:test@email.com"

\* the initial_urls handed to the constructor
InitialUrls == << A1, A2, B1, B2, B3, A3, A4, B4 >>

\* the initial_urls of the shorter crawls
ShortInitialUrls == << A1, A2, A3, B3 >>

\* get_normalized_urls(url, get_raw_urls_in_page(html)) of each page of the web
PageLinks(url) ==
    CASE url = A1 -> << A2, A1, APdf, OffSite, MailTo, A5, A5 >>
      [] url = B2 -> << B1, A1 >>
      [] OTHER -> << >>

AllUrls == { A1, A2, A3, A4, A5, B1, B2, B3, B4, APdf, OffSite, MailTo }

UrlParts == [ u \in AllUrls |-> urlsplit_compute(u) ]

urlsplit(url) == UrlParts[url]

netloc_of(url) == urlsplit(url).netloc

\* what https://<netloc>/robots.txt can answer: "none" (the fetch raises) or
\* the set of paths the parsed file forbids SantaBot
RobotsAnswers(netloc) ==
    IF netloc = HostB THEN { "none", "deny3" } ELSE { "none" }

RobotsDisallow(answer) ==
    IF answer = "deny3" THEN { "/3" } ELSE { }

\* RobotFileParser.can_fetch(USER_AGENT, url) for a parsed robots.txt
can_fetch(rp, url) == urlsplit(url).path \notin rp

(***************************************************************************)
(* Python dicts and lists.                                                 *)
(***************************************************************************)
EmptyDict == [ k \in {} |-> 0 ]

Get(d, k, default) == IF k \in DOMAIN d THEN d[k] ELSE default

Put(d, k, v) == [ x \in (DOMAIN d) \cup {k} |-> IF x = k THEN v ELSE d[x] ]

Range(s) == { s[i] : i \in 1..Len(s) }

Reverse(s) == [ i \in 1..Len(s) |-> s[Len(s) + 1 - i] ]

RemoveAt(s, i) == SubSeq(s, 1, i - 1) \o SubSeq(s, i + 1, Len(s))

SelectNotNetloc(s, netloc) == SelectSeq(s, LAMBDA u : netloc_of(u) # netloc)

(***************************************************************************)
(* The fetch-history ring.                                                 *)
(***************************************************************************)
\* most recent first; the current url is at index 1 (Python index 0)
save_url_fetch_history(history, url) ==
    LET inserted == << url >> \o history
    IN  IF Len(inserted) > NETLOC_CONSECUTIVE_TIMEOUT_PAUSE_TRIGGER
        THEN SubSeq(inserted, 1, Len(inserted) - 1)
        ELSE inserted

get_last_fetch_netloc(history) ==
    IF Len(history) < 2 THEN "" ELSE netloc_of(history[2])

\* for url in url_fetch_history: frontier_q.insert(0, url)
RECURSIVE requeue_frontier(_, _)
requeue_frontier(frontier, history) ==
    IF history = << >> THEN frontier
    ELSE requeue_frontier(<< Head(history) >> \o frontier, Tail(history))

\* a requeue that leaves the urls in visited
requeue_visited_kept(vis, history) == vis

\* for url in url_fetch_history: visited.remove(url), KeyError ignored
requeue_visited(vis, history) == vis \ Range(history)

(***************************************************************************)
(* The admission filter.                                                   *)
(***************************************************************************)
excluded_extension(path) == \E ext \in EXCLUDED_EXTENSIONS : endswith(path, ext)

\* an admission test that forgets the extension
admissible_any_extension(url, frontier, vis, page_count, page_limit) ==
    LET url_parts == urlsplit(url)
    IN  /\ url \notin Range(frontier)
        /\ url \notin vis
        /\ startswith(url_parts.scheme, "http")
        /\ endswith(url_parts.netloc, ".ku.ac.th")
        /\ Get(page_count, url_parts.netloc, 0) < page_limit

admissible(url, frontier, vis, page_count, page_limit) ==
    LET url_parts == urlsplit(url)
    IN  /\ url \notin Range(frontier)
        /\ url \notin vis
        /\ startswith(url_parts.scheme, "http")
        /\ endswith(url_parts.netloc, ".ku.ac.th")
        /\ ~excluded_extension(url_parts.path)
        /\ Get(page_count, url_parts.netloc, 0) < page_limit

\* a filter that tests every link against the frontier it started with
filter_and_enqueue_urls_one_pass(frontier, vis, page_count, page_limit, urls) ==
    frontier \o SelectSeq(urls, LAMBDA u :
                    /\ u \notin Range(frontier)
                    /\ u \notin vis
                    /\ startswith(urlsplit(u).scheme, "http")
                    /\ endswith(urlsplit(u).netloc, ".ku.ac.th")
                    /\ ~excluded_extension(urlsplit(u).path)
                    /\ Get(page_count, urlsplit(u).netloc, 0) < page_limit)

RECURSIVE filter_and_enqueue_urls(_, _, _, _, _)
filter_and_enqueue_urls(frontier, vis, page_count, page_limit, urls) ==
    IF urls = << >> THEN frontier
    ELSE filter_and_enqueue_urls(
            IF admissible(Head(urls), frontier, vis, page_count, page_limit)
            THEN Append(frontier, Head(urls))
            ELSE frontier,
            vis, page_count, page_limit, Tail(urls))

(***************************************************************************)
(* dequeue_url: the index of the first url whose netloc is not paused,     *)
(* 0 when dequeue_url returns "".                                          *)
(***************************************************************************)
\* a pause that never expires
is_paused_for_good(pause_until, netloc, time) ==
    netloc \in DOMAIN pause_until

is_paused(pause_until, netloc, time) ==
    netloc \in DOMAIN pause_until /\ time < pause_until[netloc]

\* for i in range(len(frontier_q)): the scan from index i on
RECURSIVE dequeue_scan(_, _, _, _)
dequeue_scan(frontier, pause_until, time, i) ==
    IF i > Len(frontier) THEN 0
    ELSE IF is_paused(pause_until, netloc_of(frontier[i]), time)
    THEN dequeue_scan(frontier, pause_until, time, i + 1)
    ELSE i

\* a scan that gives up at a paused head
dequeue_index_head_only(frontier, pause_until, time) ==
    IF frontier # << >> /\ ~is_paused(pause_until, netloc_of(frontier[1]), time)
    THEN 1 ELSE 0

dequeue_index(frontier, pause_until, time) ==
    dequeue_scan(frontier, pause_until, time, 1)

(***************************************************************************)
(* handle_netloc_consecutive_fetch; history already holds the current url. *)
(***************************************************************************)
\* a counter that is never restarted when the netloc changes
consecutive_fetch_count_never_restarted(fetch_count, history, current_netloc) ==
    Put(fetch_count, current_netloc, Get(fetch_count, current_netloc, 0) + 1)

consecutive_fetch_count_after(fetch_count, history, current_netloc) ==
    LET last == get_last_fetch_netloc(history)
        present == IF current_netloc \in DOMAIN fetch_count THEN fetch_count
                   ELSE Put(fetch_count, current_netloc, 0)
    IN  IF last = current_netloc
        THEN Put(present, current_netloc, present[current_netloc] + 1)
        ELSE LET one == Put(present, current_netloc, 1)
             IN  IF last # "" THEN Put(one, last, 0) ELSE one

fetch_pause_after(pause_until, fetch_count, current_netloc, time) ==
    IF fetch_count[current_netloc] = NETLOC_CONSECUTIVE_FETCH_PAUSE_TRIGGER
    THEN Put(pause_until, current_netloc, time + NETLOC_CONSECUTIVE_FETCH_PAUSE_SEC)
    ELSE pause_until

(***************************************************************************)
(* process_url, the success branch.                                        *)
(***************************************************************************)
purge_frontier(frontier, page_count, page_limit, current_netloc) ==
    IF page_count[current_netloc] = page_limit
    THEN SelectNotNetloc(frontier, current_netloc)
    ELSE frontier

timeout_count_after_success(timeout_count, history, current_netloc) ==
    Put(Put(timeout_count, current_netloc, 0), get_last_fetch_netloc(history), 0)

\* a success that lowers the escalation by one step instead of clearing it
pause_count_decayed(pause_count, current_netloc) ==
    Put(pause_count, current_netloc,
        IF pause_count[current_netloc] > 0
        THEN pause_count[current_netloc] - 1 ELSE 0)

pause_count_after_success(pause_count, current_netloc) ==
    Put(pause_count, current_netloc, 0)

(***************************************************************************)
(* process_url, the timeout branch.                                        *)
(***************************************************************************)
timeout_count_after_timeout(timeout_count, history, current_netloc) ==
    LET last == get_last_fetch_netloc(history)
    IN  IF current_netloc = last
        THEN Put(timeout_count, current_netloc, timeout_count[current_netloc] + 1)
        ELSE LET one == Put(timeout_count, current_netloc, 1)
             IN  IF last # "" THEN Put(one, last, 0) ELSE one

timeout_trigger(timeout_count, current_netloc) ==
    timeout_count[current_netloc] = NETLOC_CONSECUTIVE_TIMEOUT_PAUSE_TRIGGER

\* a backoff that doubles once too often
pause_duration_doubled(pause_count) ==
    NETLOC_CONSECUTIVE_TIMEOUT_INITIAL_PAUSE_SEC * 2 ^ pause_count

pause_duration(pause_count) ==
    NETLOC_CONSECUTIVE_TIMEOUT_INITIAL_PAUSE_SEC * 2 ^ (pause_count - 1)

(***************************************************************************)
(* State.  The first fourteen variables are the fields save_state pickles; *)
(* current_url, pc and now are the crawl loop's local, its position and    *)
(* time.time().  The rest records what the run has written and printed:    *)
(* stored (the pages written), errored (the urls of "Failed to process     *)
(* URL"), attempts (the outcome lines of the last process_url calls, most  *)
(* recent first), run_netloc/run_len (the netloc of the current run of     *)
(* consecutive process_url calls and its length), trigger_run (the         *)
(* timeout pauses printed for a netloc since its last stored page),        *)
(* dequeue_skipped (the entries dequeue_url has just passed over), denied   *)
(* (the urls robots.txt has denied), timed_out (the urls of "Timeout       *)
(* fetching") and last_trigger (what the last timeout pause left to be     *)
(* done).  checkpoint is the content of crawler_state.pkl and resumes      *)
(* counts the restarts of the process from it.                             *)
(***************************************************************************)
VARIABLES frontier_q, visited, HTML_LIMIT, html_count, NETLOC_PAGE_LIMIT,
          netloc_page_count, url_fetch_history, last_fetch_timeout,
          netloc_seen, netloc_rp, netloc_pause_until,
          netloc_consecutive_timeout_count,
          netloc_consecutive_timeout_pause_count,
          netloc_consecutive_fetch_count,
          current_url, pc, now,
          stored, errored, attempts, run_netloc, run_len, trigger_run,
          dequeue_skipped, denied, timed_out, last_trigger,
          checkpoint, resumes

limits == << HTML_LIMIT, NETLOC_PAGE_LIMIT >>
robots == << netloc_seen, netloc_rp >>
timeouts == << netloc_consecutive_timeout_count,
               netloc_consecutive_timeout_pause_count >>
run == << run_netloc, run_len >>
process == << checkpoint, resumes >>

\* the fields of the WebCrawler object
fields == << frontier_q, visited, HTML_LIMIT, html_count, NETLOC_PAGE_LIMIT,
             netloc_page_count, url_fetch_history, last_fetch_timeout,
             netloc_seen, netloc_rp, netloc_pause_until,
             netloc_consecutive_timeout_count,
             netloc_consecutive_timeout_pause_count,
             netloc_consecutive_fetch_count >>

\* what the run has written and printed
observations == << stored, errored, attempts, run_netloc, run_len, trigger_run,
                   dequeue_skipped, denied, timed_out, last_trigger >>

vars == << frontier_q, visited, HTML_LIMIT, html_count, NETLOC_PAGE_LIMIT,
           netloc_page_count, url_fetch_history, last_fetch_timeout,
           netloc_seen, netloc_rp, netloc_pause_until,
           netloc_consecutive_timeout_count,
           netloc_consecutive_timeout_pause_count,
           netloc_consecutive_fetch_count,
           current_url, pc, now,
           stored, errored, attempts, run_netloc, run_len, trigger_run,
           dequeue_skipped, denied, timed_out, last_trigger,
           checkpoint, resumes >>

\* no crawler_state.pkl has been written
NoCheckpoint == [ written |-> FALSE, state |-> << >> ]

\* what a timeout pause leaves to be done: the work the loop still sees
work_left(frontier, vis, history, count, page_count, timeout_count) ==
    << frontier, vis, history, count, page_count, timeout_count >>

Init ==
    /\ frontier_q = InitialUrls
    /\ visited = {}
    /\ HTML_LIMIT \in 1..MaxHtmlLimit
    /\ html_count = 0
    /\ NETLOC_PAGE_LIMIT \in 1..MaxNetlocPageLimit
    /\ netloc_page_count = EmptyDict
    /\ url_fetch_history = << >>
    /\ last_fetch_timeout = FALSE
    /\ netloc_seen = EmptyDict
    /\ netloc_rp = EmptyDict
    /\ netloc_pause_until = EmptyDict
    /\ netloc_consecutive_timeout_count = EmptyDict
    /\ netloc_consecutive_timeout_pause_count = EmptyDict
    /\ netloc_consecutive_fetch_count = EmptyDict
    /\ current_url = ""
    /\ pc = "loop"
    /\ now = 0
    /\ stored = {}
    /\ errored = {}
    /\ attempts = << >>
    /\ run_netloc = ""
    /\ run_len = 0
    /\ trigger_run = EmptyDict
    /\ dequeue_skipped = 0
    /\ denied = {}
    /\ timed_out = {}
    /\ last_trigger = << >>
    /\ checkpoint = NoCheckpoint
    /\ resumes = 0

\* a loop that runs while html_count has not passed the limit
loop_condition_one_more == Len(frontier_q) > 0 /\ html_count <= HTML_LIMIT

\* the condition of crawl's while loop
loop_condition == Len(frontier_q) > 0 /\ html_count < HTML_LIMIT

\* the outcome line process_url prints for an attempt
Attempt(url, outcome, trigger) ==
    [url |-> url, netloc |-> netloc_of(url), outcome |-> outcome,
     trigger |-> trigger]

record_attempt(log, entry) ==
    SubSeq(<< entry >> \o log, 1,
           IF Len(log) + 1 > NETLOC_CONSECUTIVE_TIMEOUT_PAUSE_TRIGGER
           THEN NETLOC_CONSECUTIVE_TIMEOUT_PAUSE_TRIGGER ELSE Len(log) + 1)

(***************************************************************************)
(* crawl: the loop head and dequeue_url.                                   *)
(***************************************************************************)
Dequeue ==
    /\ pc = "loop"
    /\ loop_condition
    /\ now < MaxNow
    /\ LET i == dequeue_index(frontier_q, netloc_pause_until, now)
       IN  /\ i # 0
           /\ current_url' = frontier_q[i]
           /\ frontier_q' = RemoveAt(frontier_q, i)
           /\ dequeue_skipped' = i - 1
    /\ pc' = "dequeued"
    /\ UNCHANGED << visited, limits, html_count, netloc_page_count,
                    url_fetch_history, last_fetch_timeout, robots,
                    netloc_pause_until, timeouts,
                    netloc_consecutive_fetch_count, now,
                    stored, errored, attempts, run, trigger_run,
                    denied, timed_out, last_trigger, process >>

\* dequeue_url returned "": time.sleep(1); continue
Wait ==
    /\ pc = "loop"
    /\ loop_condition
    /\ now < MaxNow
    /\ dequeue_index(frontier_q, netloc_pause_until, now) = 0
    /\ now' = now + LOOP_SLEEP_SEC
    /\ UNCHANGED << frontier_q, visited, limits, html_count, netloc_page_count,
                    url_fetch_history, last_fetch_timeout, robots,
                    netloc_pause_until, timeouts,
                    netloc_consecutive_fetch_count, current_url, pc,
                    stored, errored, attempts, run, trigger_run,
                    dequeue_skipped, denied, timed_out, last_trigger,
                    process >>

\* the loop condition is false: print_completion_time
Finish ==
    /\ pc = "loop"
    /\ ~loop_condition
    /\ pc' = "done"
    /\ UNCHANGED << frontier_q, visited, limits, html_count, netloc_page_count,
                    url_fetch_history, last_fetch_timeout, robots,
                    netloc_pause_until, timeouts,
                    netloc_consecutive_fetch_count, current_url, now,
                    stored, errored, attempts, run, trigger_run,
                    dequeue_skipped, denied, timed_out, last_trigger,
                    process >>

(***************************************************************************)
(* crawl: visited.add, try_get_and_parse_robots_txt and the can_fetch test.*)
(***************************************************************************)
\* netloc_rp after try_get_and_parse_robots_txt, the robots.txt fetch
\* answering `answer`
\* a robots.txt that is fetched again at every url of the netloc
robots_after_refetched(seen, rp, netloc, answer) ==
    IF answer = "none" THEN rp
    ELSE Put(rp, netloc, RobotsDisallow(answer))

robots_after(seen, rp, netloc, answer) ==
    IF netloc \in DOMAIN seen \/ answer = "none" THEN rp
    ELSE Put(rp, netloc, RobotsDisallow(answer))

robots_denied(rp, url) ==
    netloc_of(url) \in DOMAIN rp /\ ~can_fetch(rp[netloc_of(url)], url)

\* the url is denied by robots.txt: continue
RobotsDeny ==
    /\ pc = "dequeued"
    /\ visited' = visited \cup { current_url }
    /\ \E answer \in RobotsAnswers(netloc_of(current_url)) :
          /\ netloc_rp' = robots_after(netloc_seen, netloc_rp,
                                       netloc_of(current_url), answer)
          /\ robots_denied(netloc_rp', current_url)
    /\ netloc_seen' = Put(netloc_seen, netloc_of(current_url), TRUE)
    /\ denied' = denied \cup { current_url }
    /\ dequeue_skipped' = 0
    /\ pc' = "loop"
    /\ UNCHANGED << frontier_q, limits, html_count, netloc_page_count,
                    url_fetch_history, last_fetch_timeout,
                    netloc_pause_until, timeouts,
                    netloc_consecutive_fetch_count, current_url, now,
                    stored, errored, attempts, run, trigger_run,
                    timed_out, last_trigger, process >>

\* the url may be fetched: process_url up to the call of get_raw_document
BeginFetch ==
    /\ pc = "dequeued"
    /\ visited' = visited \cup { current_url }
    /\ \E answer \in RobotsAnswers(netloc_of(current_url)) :
          /\ netloc_rp' = robots_after(netloc_seen, netloc_rp,
                                       netloc_of(current_url), answer)
          /\ ~robots_denied(netloc_rp', current_url)
    /\ netloc_seen' = Put(netloc_seen, netloc_of(current_url), TRUE)
    /\ LET current_netloc == netloc_of(current_url)
       IN  /\ netloc_page_count' =
                 IF current_netloc \in DOMAIN netloc_page_count
                 THEN netloc_page_count
                 ELSE Put(netloc_page_count, current_netloc, 0)
           /\ netloc_consecutive_timeout_count' =
                 IF current_netloc \in DOMAIN netloc_consecutive_timeout_count
                 THEN netloc_consecutive_timeout_count
                 ELSE Put(netloc_consecutive_timeout_count, current_netloc, 0)
           /\ netloc_consecutive_timeout_pause_count' =
                 IF current_netloc \in DOMAIN netloc_consecutive_timeout_pause_count
                 THEN netloc_consecutive_timeout_pause_count
                 ELSE Put(netloc_consecutive_timeout_pause_count, current_netloc, 0)
           /\ url_fetch_history' =
                 save_url_fetch_history(url_fetch_history, current_url)
           /\ netloc_consecutive_fetch_count' =
                 consecutive_fetch_count_after(netloc_consecutive_fetch_count,
                                               url_fetch_history', current_netloc)
           /\ netloc_pause_until' =
                 fetch_pause_after(netloc_pause_until,
                                   netloc_consecutive_fetch_count',
                                   current_netloc, now)
           /\ run_netloc' = current_netloc
           /\ run_len' = IF run_netloc = current_netloc THEN run_len + 1 ELSE 1
    /\ dequeue_skipped' = 0
    /\ pc' = "fetching"
    /\ UNCHANGED << frontier_q, limits, html_count, last_fetch_timeout,
                    current_url, now, stored, errored, attempts, trigger_run,
                    denied, timed_out, last_trigger, process >>

(***************************************************************************)
(* process_url: the three outcomes of get_raw_document.                    *)
(***************************************************************************)
\* the html was fetched: store it, count it, purge, reset, enqueue its links
FetchSuccess ==
    /\ pc = "fetching"
    /\ LET current_netloc == netloc_of(current_url)
       IN  /\ stored' = stored \cup { current_url }
           /\ html_count' = html_count + 1
           /\ netloc_page_count' =
                 Put(netloc_page_count, current_netloc,
                     netloc_page_count[current_netloc] + 1)
           /\ netloc_consecutive_timeout_count' =
                 timeout_count_after_success(netloc_consecutive_timeout_count,
                                             url_fetch_history, current_netloc)
           /\ netloc_consecutive_timeout_pause_count' =
                 pause_count_after_success(netloc_consecutive_timeout_pause_count,
                                           current_netloc)
           /\ frontier_q' =
                 filter_and_enqueue_urls(
                     purge_frontier(frontier_q, netloc_page_count',
                                    NETLOC_PAGE_LIMIT, current_netloc),
                     visited, netloc_page_count', NETLOC_PAGE_LIMIT,
                     PageLinks(current_url))
           /\ trigger_run' = Put(trigger_run, current_netloc, 0)
    /\ attempts' = record_attempt(attempts, Attempt(current_url, "stored", FALSE))
    /\ last_fetch_timeout' = FALSE
    /\ pc' = "sleep"
    /\ UNCHANGED << visited, limits, url_fetch_history, robots,
                    netloc_pause_until, netloc_consecutive_fetch_count,
                    current_url, now, errored, run,
                    dequeue_skipped, denied, timed_out, last_trigger,
                    process >>

\* ConnectTimeout or ReadTimeout, REQUEST_TIMEOUT_SEC after the call
FetchTimeout ==
    /\ pc = "fetching"
    /\ now' = now + REQUEST_TIMEOUT_SEC
    /\ LET current_netloc == netloc_of(current_url)
           counted == timeout_count_after_timeout(
                          netloc_consecutive_timeout_count,
                          url_fetch_history, current_netloc)
       IN  IF timeout_trigger(counted, current_netloc)
           THEN /\ netloc_consecutive_timeout_count' =
                      Put(counted, current_netloc, 0)
                /\ netloc_consecutive_timeout_pause_count' =
                      Put(netloc_consecutive_timeout_pause_count, current_netloc,
                          netloc_consecutive_timeout_pause_count[current_netloc] + 1)
                /\ netloc_pause_until' =
                      Put(netloc_pause_until, current_netloc,
                          now' + pause_duration(
                              netloc_consecutive_timeout_pause_count'[current_netloc]))
                /\ frontier_q' = requeue_frontier(frontier_q, url_fetch_history)
                /\ visited' = requeue_visited(visited, url_fetch_history)
                /\ trigger_run' = Put(trigger_run, current_netloc,
                                      Get(trigger_run, current_netloc, 0) + 1)
                /\ attempts' = record_attempt(attempts,
                                   Attempt(current_url, "timeout", TRUE))
                /\ last_trigger' = work_left(frontier_q', visited',
                                             url_fetch_history, html_count,
                                             netloc_page_count,
                                             netloc_consecutive_timeout_count')
           ELSE /\ netloc_consecutive_timeout_count' = counted
                /\ attempts' = record_attempt(attempts,
                                   Attempt(current_url, "timeout", FALSE))
                /\ UNCHANGED << netloc_consecutive_timeout_pause_count,
                                netloc_pause_until, frontier_q, visited,
                                trigger_run, last_trigger >>
    /\ timed_out' = timed_out \cup { current_url }
    /\ last_fetch_timeout' = TRUE
    /\ pc' = "sleep"
    /\ UNCHANGED << limits, html_count, netloc_page_count, url_fetch_history,
                    robots, netloc_consecutive_fetch_count, current_url,
                    stored, errored, run, dequeue_skipped, denied, process >>

\* any other exception: "Failed to process URL"
FetchError ==
    /\ pc = "fetching"
    /\ errored' = errored \cup { current_url }
    /\ attempts' = record_attempt(attempts, Attempt(current_url, "error", FALSE))
    /\ last_fetch_timeout' = FALSE
    /\ pc' = "sleep"
    /\ UNCHANGED << frontier_q, visited, limits, html_count, netloc_page_count,
                    url_fetch_history, robots, netloc_pause_until, timeouts,
                    netloc_consecutive_fetch_count, current_url, now,
                    stored, run, trigger_run,
                    dequeue_skipped, denied, timed_out, last_trigger,
                    process >>

\* process_url returned: time.sleep(1)
Sleep ==
    /\ pc = "sleep"
    /\ now' = now + LOOP_SLEEP_SEC
    /\ pc' = "loop"
    /\ UNCHANGED << frontier_q, visited, limits, html_count, netloc_page_count,
                    url_fetch_history, last_fetch_timeout, robots,
                    netloc_pause_until, timeouts,
                    netloc_consecutive_fetch_count, current_url,
                    stored, errored, attempts, run, trigger_run,
                    dequeue_skipped, denied, timed_out, last_trigger,
                    process >>

(***************************************************************************)
(* The checkpoint: save_state on SIGINT, load_state in the constructor.    *)
(***************************************************************************)
\* the dict save_state pickles
save_state ==
    [ frontier_q |-> frontier_q,
      visited |-> visited,
      HTML_LIMIT |-> HTML_LIMIT,
      html_count |-> html_count,
      NETLOC_PAGE_LIMIT |-> NETLOC_PAGE_LIMIT,
      netloc_page_count |-> netloc_page_count,
      url_fetch_history |-> url_fetch_history,
      last_fetch_timeout |-> last_fetch_timeout,
      netloc_seen |-> netloc_seen,
      netloc_rp |-> netloc_rp,
      netloc_pause_until |-> netloc_pause_until,
      netloc_consecutive_timeout_count |-> netloc_consecutive_timeout_count,
      netloc_consecutive_timeout_pause_count |->
          netloc_consecutive_timeout_pause_count,
      netloc_consecutive_fetch_count |-> netloc_consecutive_fetch_count ]

\* the fields load_state sets from the unpickled dict
load_state(state) ==
    [ frontier_q |-> state.frontier_q,
      visited |-> state.visited,
      HTML_LIMIT |-> state.HTML_LIMIT,
      html_count |-> state.html_count,
      NETLOC_PAGE_LIMIT |-> state.NETLOC_PAGE_LIMIT,
      netloc_page_count |-> state.netloc_page_count,
      url_fetch_history |-> state.url_fetch_history,
      last_fetch_timeout |-> state.last_fetch_timeout,
      netloc_seen |-> state.netloc_seen,
      netloc_rp |-> state.netloc_rp,
      netloc_pause_until |-> state.netloc_pause_until,
      netloc_consecutive_timeout_count |->
          state.netloc_consecutive_timeout_count,
      netloc_consecutive_timeout_pause_count |->
          state.netloc_consecutive_timeout_pause_count,
      netloc_consecutive_fetch_count |-> state.netloc_consecutive_fetch_count ]

\* the else branch of the constructor: a crawl that starts from its seeds
fresh_state(initial_urls, html_limit, netloc_page_limit) ==
    [ frontier_q |-> initial_urls,
      visited |-> {},
      HTML_LIMIT |-> html_limit,
      html_count |-> 0,
      NETLOC_PAGE_LIMIT |-> netloc_page_limit,
      netloc_page_count |-> EmptyDict,
      url_fetch_history |-> << >>,
      last_fetch_timeout |-> FALSE,
      netloc_seen |-> EmptyDict,
      netloc_rp |-> EmptyDict,
      netloc_pause_until |-> EmptyDict,
      netloc_consecutive_timeout_count |-> EmptyDict,
      netloc_consecutive_timeout_pause_count |-> EmptyDict,
      netloc_consecutive_fetch_count |-> EmptyDict ]

\* a constructor that lets its arguments override the loaded limits
WebCrawler_init_by_arguments(initial_urls, html_limit, netloc_page_limit, pickle_file) ==
    IF pickle_file.written
    THEN [ load_state(pickle_file.state) EXCEPT
              !.HTML_LIMIT = html_limit,
              !.NETLOC_PAGE_LIMIT = netloc_page_limit ]
    ELSE fresh_state(initial_urls, html_limit, netloc_page_limit)

\* WebCrawler.__init__
WebCrawler_init(initial_urls, html_limit, netloc_page_limit, pickle_file) ==
    IF pickle_file.written
    THEN load_state(pickle_file.state)
    ELSE fresh_state(initial_urls, html_limit, netloc_page_limit)

\* SIGINT while crawl runs: signal_handler saves the state and exits.  The
\* fields keep the values they had when the signal arrived.
Interrupt ==
    /\ pc \in { "loop", "dequeued", "fetching", "sleep" }
    /\ resumes < MaxResumes
    /\ checkpoint' = [ written |-> TRUE, state |-> save_state ]
    /\ pc' = "exited"
    /\ UNCHANGED << fields, current_url, now, observations, resumes >>

\* main with --state-dir crawler_state.pkl and the default limits: the
\* constructor loads the checkpoint and crawl starts at its loop head
Resume ==
    /\ pc = "exited"
    /\ LET crawler == WebCrawler_init(InitialUrls, DEFAULT_HTML_LIMIT,
                                      DEFAULT_NETLOC_LIMIT, checkpoint)
       IN  /\ frontier_q' = crawler.frontier_q
           /\ visited' = crawler.visited
           /\ HTML_LIMIT' = crawler.HTML_LIMIT
           /\ html_count' = crawler.html_count
           /\ NETLOC_PAGE_LIMIT' = crawler.NETLOC_PAGE_LIMIT
           /\ netloc_page_count' = crawler.netloc_page_count
           /\ url_fetch_history' = crawler.url_fetch_history
           /\ last_fetch_timeout' = crawler.last_fetch_timeout
           /\ netloc_seen' = crawler.netloc_seen
           /\ netloc_rp' = crawler.netloc_rp
           /\ netloc_pause_until' = crawler.netloc_pause_until
           /\ netloc_consecutive_timeout_count' =
                 crawler.netloc_consecutive_timeout_count
           /\ netloc_consecutive_timeout_pause_count' =
                 crawler.netloc_consecutive_timeout_pause_count
           /\ netloc_consecutive_fetch_count' =
                 crawler.netloc_consecutive_fetch_count
    /\ current_url' = ""
    /\ pc' = "loop"
    /\ resumes' = resumes + 1
    /\ UNCHANGED << now, observations, checkpoint >>

Next ==
    \/ Dequeue
    \/ Wait
    \/ Finish
    \/ RobotsDeny
    \/ BeginFetch
    \/ FetchSuccess
    \/ FetchTimeout
    \/ FetchError
    \/ Sleep

Spec == Init /\ [][Next]_vars

\* the crawl with interrupts and restarts from the checkpoint
NextResume ==
    \/ Dequeue
    \/ Wait
    \/ Finish
    \/ RobotsDeny
    \/ BeginFetch
    \/ FetchSuccess
    \/ FetchTimeout
    \/ FetchError
    \/ Sleep
    \/ Interrupt
    \/ Resume

\* the constructor without a checkpoint, given ShortInitialUrls
InitShort ==
    /\ \E html_limit \in 1..MaxShortHtmlLimit,
          netloc_page_limit \in 1..MaxNetlocPageLimit :
          LET crawler == WebCrawler_init(ShortInitialUrls, html_limit,
                                         netloc_page_limit, NoCheckpoint)
          IN  /\ frontier_q = crawler.frontier_q
              /\ visited = crawler.visited
              /\ HTML_LIMIT = crawler.HTML_LIMIT
              /\ html_count = crawler.html_count
              /\ NETLOC_PAGE_LIMIT = crawler.NETLOC_PAGE_LIMIT
              /\ netloc_page_count = crawler.netloc_page_count
              /\ url_fetch_history = crawler.url_fetch_history
              /\ last_fetch_timeout = crawler.last_fetch_timeout
              /\ netloc_seen = crawler.netloc_seen
              /\ netloc_rp = crawler.netloc_rp
              /\ netloc_pause_until = crawler.netloc_pause_until
              /\ netloc_consecutive_timeout_count =
                    crawler.netloc_consecutive_timeout_count
              /\ netloc_consecutive_timeout_pause_count =
                    crawler.netloc_consecutive_timeout_pause_count
              /\ netloc_consecutive_fetch_count =
                    crawler.netloc_consecutive_fetch_count
    /\ current_url = ""
    /\ pc = "loop"
    /\ now = 0
    /\ stored = {}
    /\ errored = {}
    /\ attempts = << >>
    /\ run_netloc = ""
    /\ run_len = 0
    /\ trigger_run = EmptyDict
    /\ dequeue_skipped = 0
    /\ denied = {}
    /\ timed_out = {}
    /\ last_trigger = << >>
    /\ checkpoint = NoCheckpoint
    /\ resumes = 0

SpecResume == InitShort /\ [][NextResume]_vars

\* the crawl when time advances and every fetch returns: the loop, the
\* sleeps and the fetcher always take their next step
LiveSpec == InitShort /\ [][Next]_vars /\ WF_vars(Next)

(***************************************************************************)
(* Properties.                                                             *)
(***************************************************************************)
in_loop_body == pc \in { "dequeued", "fetching" }

frontier_of(netloc) == { u \in Range(frontier_q) : netloc_of(u) = netloc }

\* C1: the Frontier never contains the same URL at two positions.
C1_FrontierHasNoDuplicates ==
    \A i, j \in 1..Len(frontier_q) : i # j => frontier_q[i] # frontier_q[j]

\* C2: at every iteration boundary of the crawl loop no URL is both in
\* Visited and in the Frontier.
C2_FrontierVisitedDisjoint ==
    pc = "loop" => Range(frontier_q) \cap visited = {}

\* C3: a URL whose page was stored is never dequeued or handed to the
\* fetcher again.
C3_StoredUrlNeverRefetched ==
    in_loop_body => current_url \notin stored

\* C4: netloc_page_count[H] never exceeds NETLOC_PAGE_LIMIT.
C4_PageCountWithinLimit ==
    \A h \in DOMAIN netloc_page_count :
        netloc_page_count[h] <= NETLOC_PAGE_LIMIT

\* C5: once netloc_page_count[H] has reached NETLOC_PAGE_LIMIT the Frontier
\* holds no URL of H and no URL of H is dequeued.
C5_NoUrlOfExhaustedNetloc ==
    \A h \in DOMAIN netloc_page_count :
        netloc_page_count[h] >= NETLOC_PAGE_LIMIT =>
            /\ frontier_of(h) = {}
            /\ in_loop_body => netloc_of(current_url) # h

\* the last T attempts were all of one netloc and all timed out
last_attempts_timed_out ==
    /\ Len(attempts) = NETLOC_CONSECUTIVE_TIMEOUT_PAUSE_TRIGGER
    /\ \A i \in 1..Len(attempts) :
          /\ attempts[i].outcome = "timeout"
          /\ attempts[i].netloc = attempts[1].netloc

\* the urls of the last attempts, the oldest first
attempted_urls == Reverse([ i \in 1..Len(attempts) |-> attempts[i].url ])

\* the attempted urls are the head of the Frontier, none of them is in Visited
\* and their netloc is paused
requeued_and_paused ==
    /\ Len(frontier_q) >= Len(attempts)
    /\ SubSeq(frontier_q, 1, Len(attempts)) = attempted_urls
    /\ Range(attempted_urls) \cap visited = {}
    /\ is_paused(netloc_pause_until, attempts[1].netloc, now)

\* C6 as stated: whenever the last T attempts were all of one netloc and all
\* timed out, right after the T-th all T urls head the Frontier, none is in
\* Visited and the netloc is paused.
C6_RequeueWheneverLastAttemptsTimedOut ==
    (pc = "sleep" /\ last_attempts_timed_out) => requeued_and_paused

\* C6 as amended: the same, provided none of the first T-1 of these attempts
\* has itself triggered a timeout pause.
C6_RequeueOnTimeout ==
    ( /\ pc = "sleep"
      /\ last_attempts_timed_out
      /\ \A i \in 2..Len(attempts) : ~attempts[i].trigger )
    => requeued_and_paused

C6_Witness ==
    /\ pc = "sleep"
    /\ last_attempts_timed_out
    /\ \A i \in 2..Len(attempts) : ~attempts[i].trigger
    /\ attempts[1].trigger
    /\ SubSeq(frontier_q, 1, Len(attempts)) = attempted_urls

\* C7: a URL whose fetch raised another exception than a timeout stays in
\* Visited, is never put back into the Frontier and is never fetched again.
C7_ErroredUrlDropped ==
    \A u \in errored :
        /\ u \in visited
        /\ u \notin Range(frontier_q)
        /\ in_loop_body => current_url # u

\* a step of FetchSuccess for a url of netloc h
stores_page_of(h) ==
    /\ pc = "fetching"
    /\ pc' = "sleep"
    /\ html_count' = html_count + 1
    /\ netloc_of(current_url) = h

C9_FetchThrottleTrigger ==
    [][ (pc = "dequeued" /\ pc' = "fetching") =>
            /\ run_len' < NETLOC_CONSECUTIVE_FETCH_PAUSE_TRIGGER
                  => netloc_pause_until' = netloc_pause_until
            /\ run_len' = NETLOC_CONSECUTIVE_FETCH_PAUSE_TRIGGER
                  => /\ run_netloc' \in DOMAIN netloc_pause_until'
                     /\ netloc_pause_until'[run_netloc']
                           = now + NETLOC_CONSECUTIVE_FETCH_PAUSE_SEC
                     /\ \A h \in DOMAIN netloc_pause_until :
                           h # run_netloc' =>
                               netloc_pause_until'[h] = netloc_pause_until[h] ]_vars

\* the K-th consecutive call for a netloc has just run the throttle, after a
\* timeout and another failure in the run
C9_Witness ==
    /\ pc = "fetching"
    /\ run_len = NETLOC_CONSECUTIVE_FETCH_PAUSE_TRIGGER
    /\ run_netloc = HostB
    /\ netloc_pause_until[HostB] = now + NETLOC_CONSECUTIVE_FETCH_PAUSE_SEC
    /\ \E i, j \in 1..Len(attempts) :
          /\ attempts[i].outcome = "timeout"
          /\ attempts[j].outcome = "error"
          /\ attempts[i].netloc = HostB
          /\ attempts[j].netloc = HostB

\* B * 2^(N-1) by repeated doubling
RECURSIVE Doubled(_, _)
Doubled(B, N) == IF N <= 1 THEN B ELSE 2 * Doubled(B, N - 1)

\* C10: the N-th timeout pause of a netloc in a row (no page of the netloc
\* stored in between) lasts NETLOC_CONSECUTIVE_TIMEOUT_INITIAL_PAUSE_SEC *
\* 2^(N-1) seconds from the instant the timeout is handled.
C10_BackoffFormula ==
    (pc = "sleep" /\ Len(attempts) > 0 /\ attempts[1].trigger) =>
        LET h == attempts[1].netloc
        IN  /\ h \in DOMAIN trigger_run
            /\ trigger_run[h] >= 1
            /\ netloc_pause_until[h] =
                  now + Doubled(NETLOC_CONSECUTIVE_TIMEOUT_INITIAL_PAUSE_SEC,
                                trigger_run[h])

\* the third timeout pause in a row of a netloc has just been set
C10_Witness ==
    /\ pc = "sleep"
    /\ Len(attempts) > 0
    /\ attempts[1].trigger
    /\ trigger_run[attempts[1].netloc] = 3
    /\ netloc_pause_until[attempts[1].netloc] = now + 240

\* the netloc of url is paused at this instant
paused_now(url) == Get(netloc_pause_until, netloc_of(url), 0) > now

\* C11: dequeue_url returns the earliest url of the Frontier whose netloc is
\* not paused, removes that one entry and keeps the order of the others; it
\* returns "" and leaves the Frontier alone exactly when every url in it
\* belongs to a paused netloc.
C11_DequeueContract ==
    [][ /\ (pc = "loop" /\ pc' = "dequeued") =>
              \E i \in 1..Len(frontier_q) :
                 /\ current_url' = frontier_q[i]
                 /\ ~paused_now(frontier_q[i])
                 /\ \A j \in 1..(i - 1) : paused_now(frontier_q[j])
                 /\ Len(frontier_q') = Len(frontier_q) - 1
                 /\ \A j \in 1..(i - 1) : frontier_q'[j] = frontier_q[j]
                 /\ \A j \in i..Len(frontier_q') : frontier_q'[j] = frontier_q[j + 1]
        /\ (pc = "loop" /\ pc' = "loop") =>
              /\ frontier_q' = frontier_q
              /\ \A j \in 1..Len(frontier_q) : paused_now(frontier_q[j]) ]_vars

\* a url of an unpaused netloc has been served from behind the paused head
C11_Witness ==
    /\ pc = "dequeued"
    /\ dequeue_skipped >= 1
    /\ Len(frontier_q) >= dequeue_skipped
    /\ \A j \in 1..dequeue_skipped : paused_now(frontier_q[j])
    /\ netloc_consecutive_fetch_count[netloc_of(frontier_q[1])]
          = NETLOC_CONSECUTIVE_FETCH_PAUSE_TRIGGER
    /\ ~paused_now(current_url)

\* C12: a url denied by robots.txt is never handed to the page fetcher, is
\* not recorded in the fetch history, changes no counter and no pause, stays
\* in Visited and is never put back into the Frontier.
C12_RobotsDenialIsTerminal ==
    [][ /\ (pc = "dequeued" /\ pc' = "loop") =>
              /\ current_url \in visited'
              /\ UNCHANGED << frontier_q, url_fetch_history,
                              netloc_consecutive_fetch_count,
                              netloc_consecutive_timeout_count,
                              netloc_consecutive_timeout_pause_count,
                              netloc_pause_until, netloc_page_count,
                              html_count, last_fetch_timeout >>
        /\ \A u \in denied' :
              /\ u \in visited'
              /\ u \notin Range(frontier_q')
              /\ u \notin Range(url_fetch_history')
              /\ u \notin stored' \cup errored' \cup timed_out'
              /\ pc' = "fetching" => current_url' # u ]_vars

\* a url was denied and the crawl went on to a timeout pause of its netloc
C12_Witness ==
    /\ denied # {}
    /\ pc = "sleep"
    /\ attempts[1].trigger
    /\ \E u \in denied : netloc_of(u) = attempts[1].netloc

\* the scope of the crawl: a scheme that starts with http, a netloc under
\* .ku.ac.th and a path without an excluded extension
in_scope(url) ==
    LET parts == urlsplit_compute(url)
    IN  /\ SubSeq(parts.scheme, 1, 4) = "http"
        /\ Len(parts.netloc) > Len(".ku.ac.th")
        /\ SubSeq(parts.netloc, Len(parts.netloc) - 8, Len(parts.netloc))
              = ".ku.ac.th"
        /\ \A ext \in EXCLUDED_EXTENSIONS :
              \/ Len(parts.path) < Len(ext)
              \/ SubSeq(parts.path, Len(parts.path) - Len(ext) + 1,
                        Len(parts.path)) # ext

\* the urls of the web that are in scope
InScopeUrls == { url \in AllUrls : in_scope(url) }

admitted_links(base, links) ==
    LET passes(i) ==
            /\ links[i] \notin Range(base)
            /\ links[i] \notin visited'
            /\ links[i] \in InScopeUrls
            /\ Get(netloc_page_count', netloc_of(links[i]), 0)
                  < NETLOC_PAGE_LIMIT
            /\ \A j \in 1..(i - 1) : links[j] # links[i]
        numbered == [ i \in 1..Len(links) |-> << i, links[i] >> ]
        kept == SelectSeq(numbered, LAMBDA pair : passes(pair[1]))
    IN  [ i \in 1..Len(kept) |-> kept[i][2] ]

\* C14: after a successful fetch the Frontier is the Frontier before the
\* admission step, purged of the netloc if its quota was just reached,
\* followed by the discovered links that pass every admission condition, each
\* once and in discovery order.
C14_AdmissionAppends ==
    [][ (pc = "fetching" /\ html_count' = html_count + 1) =>
            LET h == netloc_of(current_url)
                base == IF netloc_page_count'[h] = NETLOC_PAGE_LIMIT
                        THEN SelectSeq(frontier_q, LAMBDA u : netloc_of(u) # h)
                        ELSE frontier_q
            IN  frontier_q' = base \o admitted_links(base, PageLinks(current_url))
      ]_vars

\* the page of A1 was stored below the quota: of its seven links only A5 was
\* appended, once
C14_Witness ==
    /\ pc = "sleep"
    /\ attempts[1].outcome = "stored"
    /\ attempts[1].url = A1
    /\ netloc_page_count[HostA] < NETLOC_PAGE_LIMIT
    /\ frontier_q # << >>
    /\ frontier_q[Len(frontier_q)] = A5
    /\ Cardinality({ i \in 1..Len(frontier_q) : frontier_q[i] = A5 }) = 1
    /\ A2 \in Range(frontier_q)
    /\ APdf \notin Range(frontier_q)

\* C15: html_count never exceeds HTML_LIMIT: the crawl loop dequeues and
\* fetches only while the Frontier is not empty and html_count is below
\* HTML_LIMIT, and it ends only when one of the two fails; so it is for a
\* run resumed from a checkpoint.
C15_HtmlLimit ==
    [][ /\ html_count' <= HTML_LIMIT'
        /\ (pc = "loop" /\ pc' = "dequeued") =>
              (Len(frontier_q) > 0 /\ html_count < HTML_LIMIT)
        /\ (pc = "dequeued" /\ pc' = "fetching") => html_count < HTML_LIMIT
        /\ pc' = "done" =>
              \/ pc = "done"
              \/ pc = "loop" /\ (Len(frontier_q) = 0 \/ html_count >= HTML_LIMIT)
      ]_vars

\* a run resumed from a checkpoint taken below the limit has stopped at the
\* limit with urls left in the Frontier
C15_Witness ==
    /\ resumes = 1
    /\ pc = "done"
    /\ checkpoint.state.html_count < HTML_LIMIT
    /\ html_count = HTML_LIMIT
    /\ frontier_q # << >>

\* C16: the checkpoint the interrupt handler writes holds no half-applied
\* iteration: every url in its Visited has an outcome (stored, failed, timed
\* out or denied by robots.txt) and no seed is missing from both its Frontier
\* and its Visited, unless the quota of its netloc is used up.
C16_CheckpointHoldsWholeIterations ==
    pc = "exited" =>
        /\ \A u \in checkpoint.state.visited :
              u \in stored \cup errored \cup timed_out \cup denied
        /\ \A u \in Range(ShortInitialUrls) :
              \/ u \in Range(checkpoint.state.frontier_q)
              \/ u \in checkpoint.state.visited
              \/ Get(checkpoint.state.netloc_page_count, netloc_of(u), 0)
                    >= checkpoint.state.NETLOC_PAGE_LIMIT

\* C17: the constructor given the checkpoint of a state yields that state in
\* every field save_state names; the limits are the checkpoint's, not the
\* constructor's arguments.
C17_CheckpointRoundTrip ==
    [][ (pc = "exited" /\ pc' = "loop") =>
            /\ fields' = fields
            /\ HTML_LIMIT' = checkpoint.state.HTML_LIMIT
            /\ NETLOC_PAGE_LIMIT' = checkpoint.state.NETLOC_PAGE_LIMIT ]_vars

\* a crawl resumed, with the default arguments, from a checkpoint taken in
\* the middle of a fetch with a parsed robots.txt, a pause, a full fetch
\* history, a stored page and an escalated netloc
C17_Witness ==
    /\ resumes = 1
    /\ pc = "loop"
    /\ current_url = ""
    /\ save_state = checkpoint.state
    /\ HTML_LIMIT # DEFAULT_HTML_LIMIT
    /\ NETLOC_PAGE_LIMIT # DEFAULT_NETLOC_LIMIT
    /\ Len(url_fetch_history) = NETLOC_CONSECUTIVE_TIMEOUT_PAUSE_TRIGGER
    /\ attempts[1].url # url_fetch_history[1]
    /\ netloc_rp # EmptyDict
    /\ netloc_pause_until # EmptyDict
    /\ \E h \in DOMAIN netloc_consecutive_timeout_pause_count :
          netloc_consecutive_timeout_pause_count[h] >= 1
    /\ html_count >= 1

\* some url of the Frontier belongs to a netloc whose pause, if any, expires
\* before the clock of the model stops
pause_expires_in_time ==
    /\ now < MaxNow
    /\ \E i \in 1..Len(frontier_q) :
          Get(netloc_pause_until, netloc_of(frontier_q[i]), 0) < MaxNow

\* C18: whenever the loop is at its head with a non-empty Frontier and
\* html_count < HTML_LIMIT, a url is eventually dequeued: every pause expires
\* at a finite instant and the waiting loop reaches it.
C18_ForwardProgress ==
    ( /\ pc = "loop"
      /\ Len(frontier_q) > 0
      /\ html_count < HTML_LIMIT
      /\ pause_expires_in_time ) ~> (pc = "dequeued")

\* the loop waits with every url of the Frontier paused, one netloc in its
\* second timeout pause in a row
C18_Witness ==
    /\ pc = "loop"
    /\ Len(frontier_q) > 0
    /\ html_count < HTML_LIMIT
    /\ pause_expires_in_time
    /\ \A i \in 1..Len(frontier_q) : paused_now(frontier_q[i])
    /\ \E i \in 1..Len(frontier_q) :
          /\ netloc_of(frontier_q[i])
                \in DOMAIN netloc_consecutive_timeout_pause_count
          /\ netloc_consecutive_timeout_pause_count[netloc_of(frontier_q[i])] >= 2

\* C19: netloc_consecutive_fetch_count[H] never exceeds
\* NETLOC_CONSECUTIVE_FETCH_PAUSE_TRIGGER: no netloc is processed more often
\* in a row without a fresh fetch pause.
C19_FetchCountWithinTrigger ==
    \A h \in DOMAIN netloc_consecutive_fetch_count :
        netloc_consecutive_fetch_count[h]
            <= NETLOC_CONSECUTIVE_FETCH_PAUSE_TRIGGER

\* C20: the crawl loop eventually reaches DONE, also when a netloc times out
\* on every attempt.  On finite runs: a timeout pause that leaves only urls
\* of the paused netloc in the Frontier never leaves the loop the very work
\* the previous timeout pause left it (a loop that comes back to the same
\* work, the netloc timing out as before, never ends).
C20_TimeoutPauseLeavesLessWork ==
    [][ ( /\ pc = "fetching"
          /\ pc' = "sleep"
          /\ attempts'[1].trigger
          /\ \A i \in 1..Len(frontier_q') :
                netloc_of(frontier_q'[i]) = netloc_of(current_url) )
        => last_trigger' # last_trigger ]_vars

====
